---- MODULE Spec2Model ----
(***************************************************************************)
(* The in-memory semantic cache of kallm (package cache): MemoryCache and  *)
(* CosineSimilarity.                                                        *)
(*                                                                          *)
(* m.entries is a slice of pointers to api.CacheEntry.  The model keeps    *)
(* the entry objects themselves in the sequence, and keeps track of the    *)
(* pointers held outside m.entries instead: a Get that has scanned holds   *)
(* the position of its match (no writer moves entries while it holds the   *)
(* read lock), and each object carries the number of updateHitStats        *)
(* goroutines that were started with a pointer to it and have not run yet  *)
(* (field Pending, which is not a field of api.CacheEntry).  An object     *)
(* taken out of m.entries is reachable from these goroutines only: the     *)
(* model counts them (detached) and forgets the object.  A caller that     *)
(* keeps the pointer Get returned or the pointer it passed to Set is kept  *)
(* track of in the same way (field Held).  The request, the response and   *)
(* CreatedAt of an entry are never read by the engine and are left out.    *)
(*                                                                          *)
(* float64 similarities are kept exact: a similarity is the real number    *)
(* n / sqrt(d), held as the pair [n, d] of integers with d > 0, and all    *)
(* comparisons are comparisons of these reals (no rounding).               *)
(***************************************************************************)
EXTENDS Integers, Sequences, FiniteSets, TLC

\* ------------------------------------------------------------------ bounds

\* Capacities 1..MaxCap are tried for opts.MaxSize.
MaxCap == 2
\* The clock runs from 1 to MaxTime.
MaxTime == 2
\* Gets counted (hits + misses, finished or in progress) since the last Clear.
MaxCount == 2
\* Deferred updateHitStats goroutines not yet run.
MaxPending == 1

\* Writers that have called m.mu.Lock() and have not returned.
MaxWriters == 2

\* Entry objects that callers keep a pointer to.
MaxKept == 1

\* The nil entry pointer (no position).
Nil == 0

\* Embeddings that are pairwise no near-duplicates (cosine <= 0).
Compass == {<<1, 0>>, <<0, 1>>, <<-1, 0>>, <<0, -1>>}
\* Embeddings with near-duplicates: <<12, 1>> is one of <<1, 0>> and of
\* <<6, 1>>, which are none of each other.
SetVectors == {<<1, 0>>, <<12, 1>>, <<6, 1>>, <<0, 1>>, <<-1, 0>>}
\* Embeddings passed to Get in the claims about Get.
QueryVectors == SetVectors
\* Time-to-live of the entries passed to Set (ExpiresAt = now + ttl).
TTLs == {0, 1}
\* Embeddings passed to Get and Delete where all operations run together.
FewVectors == {<<1, 0>>, <<0, 1>>, <<-1, 0>>}
\* Embeddings passed to Get where a hit and a miss are all that is wanted.
TwoVectors == {<<1, 0>>, <<0, 1>>}
\* Embeddings for which CosineSimilarity returns 0 against every embedding
\* of length 2: empty, of zero magnitude, of another length.
Malformed == {<<>>, <<0, 0>>, <<1>>}
\* The one embedding used where the lock is what is studied.
OneVector == {<<1, 0>>}
\* Processes calling Get.
Getters == {"g1", "g2"}

\* ------------------------------------------------------- similarity values

\* The real number n / sqrt(d).
Real(n, d) == [n |-> n, d |-> d]
Zero == Real(0, 1)
Abs(x) == IF x < 0 THEN -x ELSE x
\* x > y, x >= y, x = y on reals n / sqrt(d): t |-> t * |t| is increasing.
SimGT(x, y) == x.n * Abs(x.n) * y.d > y.n * Abs(y.n) * x.d
SimGE(x, y) == x.n * Abs(x.n) * y.d >= y.n * Abs(y.n) * x.d
SimEQ(x, y) == x.n * Abs(x.n) * y.d = y.n * Abs(y.n) * x.d

\* Thresholds passed to Get: -1, 0 and 0.9.
Thresholds == {Real(-1, 1), Real(0, 1), Real(9, 100)}

\* The similarity 1 of an embedding to itself, also the greatest threshold.
One == Real(1, 1)

\* The threshold 0.9.
Threshold09 == Real(9, 100)

\* The literal 0.99 of Set and Delete.
NearDuplicate == Real(99, 10000)

RECURSIVE Dot(_, _, _)
Dot(a, b, i) == IF i = 0 THEN 0 ELSE a[i] * b[i] + Dot(a, b, i - 1)

CosineSimilarity(a, b) ==
  IF Len(a) # Len(b) \/ Len(a) = 0 THEN Zero
  ELSE LET dotProduct == Dot(a, b, Len(a))
           normA == Dot(a, a, Len(a))
           normB == Dot(b, b, Len(a))
       IN IF normA = 0 \/ normB = 0 THEN Zero
          ELSE Real(dotProduct, normA * normB)

\* ------------------------------------------------------------------- state

VARIABLES
  maxSize,   \* m.opts.MaxSize
  clock,     \* what time.Now() returns
  entries,   \* m.entries: the entry objects, in slice order
  hits,      \* m.hits
  misses,    \* m.misses
  readers,   \* m.mu: the processes holding the read lock
  getSt,     \* each Get caller's position and locals
  statsSt,   \* the Stats caller's position and locals
  detached,  \* updateHitStats goroutines not yet run whose entry is no
             \* longer in m.entries
  last,      \* history: the step just taken (its operation and arguments)
  quiet,     \* history: Clear has returned and no Get or Set has been
             \* called since
  untouched, \* history: Clear has returned and no Get or Set has taken
             \* m.mu since
  completed, \* history: the Gets that have returned since NewMemoryCache
             \* or the last Clear
  writers,   \* m.mu: where each writer stands with the write lock
  kept       \* the entry objects that a caller holds a pointer to and that
             \* are no longer in m.entries

vars == <<maxSize, clock, entries, hits, misses, readers, getSt, statsSt,
          detached, last, quiet, untouched, completed, writers, kept>>

\* The zero value of api.CacheEntry.
ZeroEntry == [Embedding |-> <<>>, ExpiresAt |-> 0, HitCount |-> 0,
              LastHitAt |-> 0, Pending |-> 0, Held |-> FALSE]

\* The entry a caller of Set builds: no hit yet.
NewEntry(embedding, expiresAt) ==
  [ZeroEntry EXCEPT !.Embedding = embedding, !.ExpiresAt = expiresAt]

IdleGet == [pc |-> "idle", bestMatch |-> Nil, bestSimilarity |-> Zero]
IdleStats == [pc |-> "idle", hits |-> 0, seen |-> {}]
NoStats == [TotalEntries |-> 0, TotalHits |-> 0, TotalMisses |-> 0,
            HitRate |-> <<0, 1>>, EstimatedSaved |-> 0]
NoLast == [op |-> "none", found |-> FALSE, entry |-> ZeroEntry, pos |-> Nil,
           embedding |-> <<>>, ret |-> 0, stats |-> NoStats, seen |-> {}]

Range(s) == {s[i] : i \in 1..Len(s)}

\* The updateHitStats goroutines that hold a pointer to an entry of ents.
RECURSIVE Attached(_)
Attached(ents) ==
  IF ents = <<>> THEN 0 ELSE Head(ents).Pending + Attached(Tail(ents))

Scanning == {g \in Getters : getSt[g].pc = "scanned"}

\* The Gets that will start an updateHitStats goroutine when they return.
Matched == {g \in Scanning : getSt[g].bestMatch # Nil}

PendingTotal == Attached(entries) + detached + Attached(kept)

\* The entry objects that callers hold a pointer to.
HeldCount == Cardinality({i \in 1..Len(entries) : entries[i].Held}) + Len(kept)

\* A history record of the operation op, all other fields at their defaults.
Did(op) == [NoLast EXCEPT !.op = op]

\* --------------------------------------------------------------- the lock
\* m.mu is a sync.RWMutex.  RLock returns when no writer holds the lock and
\* none waits for it (a call of Lock blocks the RLock calls that come after
\* it); Lock returns when nobody holds the lock.

\* The operations that take the write lock: the methods that call
\* m.mu.Lock(), Cleanup once for a client and once for cleanupLoop.
Writers == {"Set", "Delete", "Clear", "Cleanup", "cleanupLoop",
            "updateHitStats"}

\* No writer has called Lock.
NoWriter == [w \in Writers |-> "out"]

\* The writers blocked in m.mu.Lock().
Waiting == {w \in Writers : writers[w] = "waiting"}

\* The writers between m.mu.Lock() and m.mu.Unlock().
Inside == {w \in Writers : writers[w] = "in"}

\* m.mu.RLock() returns.
CanRLock == Waiting = {} /\ Inside = {}

\* Faulty variant: Lock does not wait for the readers.
CanLock_IgnoresReaders == Inside = {}

\* m.mu.Lock() returns: nobody holds m.mu.
CanLock == readers = {} /\ Inside = {}

\* The writer w is past its m.mu.Lock(): it took the lock in an earlier
\* step, or takes it in this one.
Holds(w) == writers[w] = "in" \/ CanLock

\* m.mu after the deferred m.mu.Unlock() of the writer w.
Unlocked(w) == [writers EXCEPT ![w] = "out"]

\* The writer w calls m.mu.Lock() and blocks.
LockCall(w) ==
  /\ writers[w] = "out"
  /\ Cardinality(Waiting \cup Inside) < MaxWriters
  /\ w = "updateHitStats" => PendingTotal > 0
  /\ writers' = [writers EXCEPT ![w] = "waiting"]
  /\ quiet' = (quiet /\ w # "Set")
  /\ last' = NoLast
  /\ UNCHANGED <<maxSize, clock, entries, hits, misses, readers, getSt,
                 statsSt, detached, untouched, completed, kept>>

\* The m.mu.Lock() of the writer w returns.
Lock(w) ==
  /\ writers[w] = "waiting"
  /\ CanLock
  /\ writers' = [writers EXCEPT ![w] = "in"]
  /\ untouched' = (untouched /\ w # "Set")
  /\ last' = NoLast
  /\ UNCHANGED <<maxSize, clock, entries, hits, misses, readers, getSt,
                 statsSt, detached, quiet, completed, kept>>

\* ---------------------------------------------------------------------- Get

\* Faulty variant: an entry is skipped from the instant of its expiry on.
Expired_AtExpiry(now, entry) == now >= entry.ExpiresAt

\* Get: now.After(entry.ExpiresAt), the entry is skipped.
Expired(now, entry) == now > entry.ExpiresAt

\* Faulty variant: the similarity is compared with the threshold only.
Improves_ThresholdOnly(similarity, threshold, bestSimilarity) ==
  SimGE(similarity, threshold)

\* Get: similarity >= threshold && similarity > bestSimilarity.
Improves(similarity, threshold, bestSimilarity) ==
  SimGE(similarity, threshold) /\ SimGT(similarity, bestSimilarity)

\* Get: the loop over m.entries from position i, best being the running
\* (bestMatch, bestSimilarity), which start as (nil, 0).
RECURSIVE Scan(_, _, _, _, _, _)
Scan(ents, embedding, threshold, now, i, best) ==
  IF i > Len(ents) THEN best
  ELSE LET similarity == CosineSimilarity(embedding, ents[i].Embedding)
           next == IF ~Expired(now, ents[i])
                      /\ Improves(similarity, threshold, best.bestSimilarity)
                   THEN [bestMatch |-> i, bestSimilarity |-> similarity]
                   ELSE best
       IN Scan(ents, embedding, threshold, now, i + 1, next)

\* Get, line 41: Get has been called and has not taken the read lock yet
\* (a writer holds m.mu, or the caller has not been scheduled since).
GetCall(g) ==
  /\ getSt[g].pc = "idle"
  /\ hits + misses + Cardinality(Scanning) < MaxCount
  /\ getSt' = [getSt EXCEPT ![g].pc = "called"]
  /\ quiet' = FALSE
  /\ last' = NoLast
  /\ UNCHANGED <<maxSize, clock, entries, hits, misses, readers, statsSt,
                 detached, untouched,
                 completed, writers, kept>>

\* Get, lines 42-61: RLock, now := time.Now(), the scan; by a caller that
\* waited for the lock, or in one step with the call.
GetScan(g, embedding, threshold) ==
  /\ getSt[g].pc \in {"idle", "called"}
  /\ CanRLock
  /\ hits + misses + Cardinality(Scanning) < MaxCount
  /\ LET best == Scan(entries, embedding, threshold, clock, 1,
                      [bestMatch |-> Nil, bestSimilarity |-> Zero])
     IN /\ best.bestMatch # Nil =>
             PendingTotal + Cardinality(Matched) < MaxPending
        /\ getSt' = [getSt EXCEPT ![g] =
                       [pc |-> "scanned", bestMatch |-> best.bestMatch,
                        bestSimilarity |-> best.bestSimilarity]]
  /\ readers' = readers \cup {g}
  /\ quiet' = (quiet /\ getSt[g].pc = "called")
  /\ untouched' = FALSE
  /\ last' = NoLast
  /\ UNCHANGED <<maxSize, clock, entries, hits, misses, statsSt, detached,
                 completed, writers, kept>>

\* What Stats could have read at an instant: (len(m.entries), hits, misses).
Triple(n, h, m) == <<n, h, m>>

\* Faulty variant: a miss is not counted.
Counted_MissUncounted(found, h, m) ==
  IF found THEN [hits |-> h + 1, misses |-> m] ELSE [hits |-> h, misses |-> m]

\* Get, line 64 or 70: the counters after the Get has counted its result.
Counted(found, h, m) ==
  IF found THEN [hits |-> h + 1, misses |-> m] ELSE [hits |-> h, misses |-> m + 1]

\* Faulty variant: the matched entry is also moved to the front of m.entries.
Started_MoveToFront(ents, i) ==
  <<[ents[i] EXCEPT !.Pending = @ + 1]>>
    \o SubSeq(ents, 1, i - 1) \o SubSeq(ents, i + 1, Len(ents))

\* Get, line 66: go m.updateHitStats(bestMatch), bestMatch being at position
\* i: one more goroutine holds a pointer to the entry.
Started(ents, i) == [ents EXCEPT ![i].Pending = @ + 1]

\* Get, lines 63-71: count the hit and start updateHitStats on the match, or
\* count the miss; return; the deferred RUnlock.
GetReturn(g) ==
  /\ getSt[g].pc = "scanned"
  /\ LET st == getSt[g]
         found == st.bestMatch # Nil
         c == Counted(found, hits, misses)
     IN /\ hits' = c.hits
        /\ misses' = c.misses
        /\ entries' = IF found THEN Started(entries, st.bestMatch)
                      ELSE entries
        /\ last' = [Did("Get") EXCEPT
                      !.found = found,
                      !.pos = st.bestMatch,
                      !.entry = IF found THEN entries[st.bestMatch]
                                ELSE ZeroEntry]
        /\ statsSt' = IF statsSt.pc = "loaded"
                      THEN [statsSt EXCEPT !.seen =
                              @ \cup {Triple(Len(entries), c.hits, c.misses)}]
                      ELSE statsSt
  /\ getSt' = [getSt EXCEPT ![g] = IdleGet]
  /\ readers' = readers \ {g}
  /\ completed' = completed + 1
  /\ UNCHANGED <<maxSize, clock, detached, quiet, untouched, writers, kept>>

\* ------------------------------------------------------------ Stats, Size

\* Stats: hitRate, as the fraction <<hits, total>> (<<0, 1>> is 0).
HitRate(h, m) == IF h + m > 0 THEN <<h, h + m>> ELSE <<0, 1>>

\* Stats: the api.CacheStats built at return; EstimatedSaved in 1/1000 USD.
CacheStats(n, h, m) ==
  [TotalEntries |-> n, TotalHits |-> h, TotalMisses |-> m,
   HitRate |-> HitRate(h, m), EstimatedSaved |-> h * 1]

\* Stats, lines 158-161: RLock, hits := m.hits.Load().
StatsLoadHits ==
  /\ statsSt.pc = "idle"
  /\ CanRLock
  /\ statsSt' = [pc |-> "loaded", hits |-> hits,
                 seen |-> {Triple(Len(entries), hits, misses)}]
  /\ readers' = readers \cup {"stats"}
  /\ last' = NoLast
  /\ UNCHANGED <<maxSize, clock, entries, hits, misses, getSt, detached, quiet,
                 untouched,
                 completed, writers, kept>>

\* Stats, lines 162-180: misses := m.misses.Load(), build the result,
\* return; the deferred RUnlock.
StatsReturn ==
  /\ statsSt.pc = "loaded"
  /\ last' = [Did("Stats") EXCEPT
                !.stats = CacheStats(Len(entries), statsSt.hits, misses),
                !.seen = statsSt.seen]
  /\ statsSt' = IdleStats
  /\ readers' = readers \ {"stats"}
  /\ UNCHANGED <<maxSize, clock, entries, hits, misses, getSt, detached, quiet,
                 untouched,
                 completed, writers, kept>>

\* Size: RLock, return len(m.entries), RUnlock.
Size ==
  /\ CanRLock
  /\ last' = [Did("Size") EXCEPT !.ret = Len(entries)]
  /\ UNCHANGED <<maxSize, clock, entries, hits, misses, readers, getSt,
                 statsSt, detached, quiet, untouched,
                 completed, writers, kept>>

\* Time passes.
Tick ==
  /\ clock < MaxTime
  /\ clock' = clock + 1
  /\ last' = NoLast
  /\ UNCHANGED <<maxSize, entries, hits, misses, readers, getSt, statsSt,
                 detached, quiet, untouched,
                 completed, writers, kept>>

\* ------------------------------------------------------------- the writers
\* The body of a writer, from after m.mu.Lock() to the deferred
\* m.mu.Unlock(), is one step: it is taken by a writer that holds the lock,
\* or together with the taking of the lock.

\* s without the first occurrence of e, if there is one.
RECURSIVE RemoveOne(_, _)
RemoveOne(s, e) ==
  IF s = <<>> THEN s
  ELSE IF Head(s) = e THEN Tail(s)
  ELSE <<Head(s)>> \o RemoveOne(Tail(s), e)

\* s without one occurrence of each element of t.
RECURSIVE Minus(_, _)
Minus(s, t) == IF t = <<>> THEN s ELSE Minus(RemoveOne(s, Head(t)), Tail(t))

\* A caller holds a pointer to entry; no caller does.
IsHeld(entry) == entry.Held
NotHeld(entry) == ~entry.Held

\* The objects that leave m.entries when ents replaces it.
Gone(ents) == Minus(entries, ents)

\* The objects not in m.entries to which a caller holds a pointer, once
\* ents has replaced m.entries (stored holds the object of ents that has
\* just come from kept: <<>> if there is none).
Keeps(ents, stored) == Minus(kept, stored) \o SelectSeq(Gone(ents), IsHeld)

\* The goroutines whose entry is not in m.entries and is held by no caller,
\* once ents has replaced m.entries.
Detach(ents) == detached + Attached(SelectSeq(Gone(ents), NotHeld))

\* Set, Delete: similarity > 0.99.
IsDuplicate(similarity) == SimGT(similarity, NearDuplicate)

\* Set, Delete: the loop that looks for the first stored entry whose
\* embedding is a near-duplicate of embedding; its position, or 0.
RECURSIVE FirstDuplicate(_, _, _)
FirstDuplicate(ents, embedding, i) ==
  IF i > Len(ents) THEN 0
  ELSE IF IsDuplicate(CosineSimilarity(embedding, ents[i].Embedding)) THEN i
  ELSE FirstDuplicate(ents, embedding, i + 1)

\* Faulty variant: Before also holds of equal times.
Before_OrEqual(t, u) == t <= u

\* time.Time.Before.
Before(t, u) == t < u

\* evictOldest: the loop that finds oldestIdx, started as 1 (Go's 0).
RECURSIVE OldestIdx(_, _, _)
OldestIdx(ents, i, oldestIdx) ==
  IF i > Len(ents) THEN oldestIdx
  ELSE OldestIdx(ents, i + 1,
                 IF Before(ents[i].LastHitAt, ents[oldestIdx].LastHitAt)
                 THEN i ELSE oldestIdx)

\* Faulty variant: the last element is dropped without being moved to position i.
RemoveAt_DropLast(ents, i) == SubSeq(ents, 1, Len(ents) - 1)

\* Remove position i by swapping with the last element.
RemoveAt(ents, i) ==
  SubSeq([ents EXCEPT ![i] = ents[Len(ents)]], 1, Len(ents) - 1)

\* Faulty variant: the slice is not shortened after the swap.
evictOldest_NoTruncate(ents) ==
  IF Len(ents) = 0 THEN ents
  ELSE [ents EXCEPT ![OldestIdx(ents, 1, 1)] = ents[Len(ents)]]

evictOldest(ents) ==
  IF Len(ents) = 0 THEN ents ELSE RemoveAt(ents, OldestIdx(ents, 1, 1))

\* Faulty variant: the capacity test is off by one.
AtCapacity_OffByOne(n, cap) == n > cap

\* Set: len(m.entries) >= m.opts.MaxSize.
AtCapacity(n, cap) == n >= cap

\* Faulty variant: the capacity is checked before the duplicates are looked for.
Set_EvictsFirst(ents, entry, cap) ==
  LET rest == IF AtCapacity(Len(ents), cap) THEN evictOldest(ents) ELSE ents
      i == FirstDuplicate(rest, entry.Embedding, 1)
  IN IF i # 0 THEN [rest EXCEPT ![i] = entry] ELSE Append(rest, entry)

\* Set: m.entries after the body of Set.
Set(ents, entry, cap) ==
  LET i == FirstDuplicate(ents, entry.Embedding, 1)
  IN IF i # 0 THEN [ents EXCEPT ![i] = entry]
     ELSE Append(IF AtCapacity(Len(ents), cap) THEN evictOldest(ents)
                 ELSE ents, entry)

\* Delete: m.entries after the body of Delete.
Delete(ents, embedding) ==
  LET i == FirstDuplicate(ents, embedding, 1)
  IN IF i # 0 THEN RemoveAt(ents, i) ELSE ents

\* Faulty variant: the test of Get (not now.After) in place of now.Before.
Active_NotAfter(now, entry) == now <= entry.ExpiresAt

\* Faulty variant: an entry is kept one tick past its expiry.
Active_WithGrace(now, entry) == now <= entry.ExpiresAt + 1

\* Cleanup: now.Before(e.ExpiresAt), the entry is kept.
Active(now, entry) == Before(now, entry.ExpiresAt)

\* Cleanup: the active entries, in order.
RECURSIVE Cleanup(_, _, _)
Cleanup(ents, now, i) ==
  IF i > Len(ents) THEN <<>>
  ELSE (IF Active(now, ents[i]) THEN <<ents[i]>> ELSE <<>>)
         \o Cleanup(ents, now, i + 1)

\* Faulty variant: the miss counter is not reset.
ClearedCounters_KeepsMisses(h, m) == [hits |-> 0, misses |-> m]

\* Clear: the counters after m.hits.Store(0) and m.misses.Store(0).
ClearedCounters(h, m) == [hits |-> 0, misses |-> 0]

\* The caller builds the entry (embedding, ExpiresAt = now + ttl, no hits
\* yet) and calls Set; it returns nil.  The history tells the three ways
\* through Set apart.
SetCall(embedding, ttl) ==
  /\ Holds("Set")
  /\ LET entry == NewEntry(embedding, clock + ttl)
         ents == Set(entries, entry, maxSize)
         i == FirstDuplicate(entries, embedding, 1)
     IN /\ entries' = ents
        /\ detached' = Detach(ents)
        /\ kept' = Keeps(ents, <<>>)
        /\ last' = [Did(IF i # 0 THEN "Set:replaced"
                         ELSE IF Len(ents) = Len(entries) THEN "Set:evicted"
                         ELSE "Set:appended") EXCEPT
                      !.entry = entry,
                      !.pos = IF i # 0 THEN i ELSE Len(ents)]
  /\ quiet' = (quiet /\ writers["Set"] # "out")
  /\ untouched' = FALSE
  /\ writers' = Unlocked("Set")
  /\ UNCHANGED <<maxSize, clock, hits, misses, readers, getSt, statsSt,
                 completed>>

\* Delete; it returns nil (ret 0).
DeleteCall(embedding) ==
  /\ Holds("Delete")
  /\ LET ents == Delete(entries, embedding)
     IN /\ entries' = ents
        /\ detached' = Detach(ents)
        /\ kept' = Keeps(ents, <<>>)
  /\ last' = [Did("Delete") EXCEPT !.embedding = embedding, !.ret = 0]
  /\ writers' = Unlocked("Delete")
  /\ UNCHANGED <<maxSize, clock, hits, misses, readers, getSt, statsSt, quiet,
                 untouched, completed>>

\* Clear; it returns nil (ret 0).
ClearCall ==
  /\ Holds("Clear")
  /\ entries' = <<>>
  /\ detached' = Detach(<<>>)
  /\ kept' = Keeps(<<>>, <<>>)
  /\ hits' = ClearedCounters(hits, misses).hits
  /\ misses' = ClearedCounters(hits, misses).misses
  /\ quiet' = TRUE
  /\ untouched' = TRUE
  /\ last' = [Did("Clear") EXCEPT !.ret = 0]
  /\ completed' = 0
  /\ writers' = Unlocked("Clear")
  /\ UNCHANGED <<maxSize, clock, readers, getSt, statsSt>>

\* Cleanup, called by who (a client, or cleanupLoop); it returns the number
\* of entries removed.
CleanupBy(who) ==
  /\ Holds(who)
  /\ LET ents == Cleanup(entries, clock, 1)
     IN /\ entries' = ents
        /\ detached' = Detach(ents)
        /\ kept' = Keeps(ents, <<>>)
        /\ last' = [Did(who) EXCEPT !.ret = Len(entries) - Len(ents)]
  /\ writers' = Unlocked(who)
  /\ UNCHANGED <<maxSize, clock, hits, misses, readers, getSt, statsSt, quiet,
                 untouched, completed>>

CleanupCall == CleanupBy("Cleanup")

\* cleanupLoop: the ticker fires and the loop calls Cleanup.
cleanupLoop == CleanupBy("cleanupLoop")

\* updateHitStats, a goroutine started by Get on the entry that is now at
\* position i of m.entries.
updateHitStats(i) ==
  /\ Holds("updateHitStats")
  /\ entries[i].Pending > 0
  /\ entries' = [entries EXCEPT ![i] =
                   [@ EXCEPT !.HitCount = @ + 1, !.LastHitAt = clock,
                             !.Pending = @ - 1]]
  /\ last' = [Did("updateHitStats") EXCEPT !.found = TRUE, !.ret = i]
  /\ writers' = Unlocked("updateHitStats")
  /\ UNCHANGED <<maxSize, clock, hits, misses, readers, getSt, statsSt,
                 detached, quiet, untouched, completed, kept>>

\* updateHitStats, a goroutine started by Get on an entry that has left
\* m.entries since: it writes an object the engine no longer reads.
updateHitStatsDetached ==
  /\ Holds("updateHitStats")
  /\ detached > 0
  /\ detached' = detached - 1
  /\ last' = Did("updateHitStats")
  /\ writers' = Unlocked("updateHitStats")
  /\ UNCHANGED <<maxSize, clock, entries, hits, misses, readers, getSt,
                 statsSt, quiet, untouched, completed, kept>>

\* updateHitStats, a goroutine started by Get on an entry that has left
\* m.entries since and that a caller holds, the object being at position k
\* of kept.
updateHitStatsKept(k) ==
  /\ Holds("updateHitStats")
  /\ kept[k].Pending > 0
  /\ kept' = [kept EXCEPT ![k] =
                [@ EXCEPT !.HitCount = @ + 1, !.LastHitAt = clock,
                          !.Pending = @ - 1]]
  /\ last' = Did("updateHitStats")
  /\ writers' = Unlocked("updateHitStats")
  /\ UNCHANGED <<maxSize, clock, entries, hits, misses, readers, getSt,
                 statsSt, detached, quiet, untouched, completed>>

\* A caller passes to Set again the entry object at position k of kept,
\* which it got from Get or passed to Set before and has not written to:
\* Set stores the pointer.
SetKept(k) ==
  /\ Holds("Set")
  /\ LET entry == kept[k]
         ents == Set(entries, entry, maxSize)
         i == FirstDuplicate(entries, entry.Embedding, 1)
     IN /\ entries' = ents
        /\ detached' = Detach(ents)
        /\ kept' = Keeps(ents, <<entry>>)
        /\ last' = [Did(IF i # 0 THEN "Set:replaced"
                         ELSE IF Len(ents) = Len(entries) THEN "Set:evicted"
                         ELSE "Set:appended") EXCEPT
                      !.entry = entry,
                      !.pos = IF i # 0 THEN i ELSE Len(ents)]
  /\ quiet' = (quiet /\ writers["Set"] # "out")
  /\ untouched' = FALSE
  /\ writers' = Unlocked("Set")
  /\ UNCHANGED <<maxSize, clock, hits, misses, readers, getSt, statsSt,
                 completed>>

\* ------------------------------------------------------------- the callers
\* Get returns bestMatch, the pointer that is in m.entries, and Set stores
\* the pointer it is given: a caller that keeps the pointer reads and writes
\* the stored object, without the lock (m.mu is not exported).

\* The values a caller writes to the HitCount of an entry it holds.
CallerCounts == {0, 7}

\* The caller keeps the pointer that Get has just returned to it, or that it
\* has just passed to Set.
Keep ==
  /\ last.op \in {"Get", "Set:appended", "Set:evicted", "Set:replaced"}
  /\ last.pos # Nil
  /\ ~entries[last.pos].Held
  /\ HeldCount < MaxKept
  /\ entries' = [entries EXCEPT ![last.pos].Held = TRUE]
  /\ last' = NoLast
  /\ UNCHANGED <<maxSize, clock, hits, misses, readers, getSt, statsSt,
                 detached, quiet, untouched, completed, writers, kept>>

\* A caller writes hitCount to entry.HitCount through a pointer it kept, the
\* object being at position i of m.entries.
CallerWrite(i, hitCount) ==
  /\ entries[i].Held
  /\ entries' = [entries EXCEPT ![i].HitCount = hitCount]
  /\ last' = [Did("CallerWrite") EXCEPT !.pos = i, !.ret = hitCount]
  /\ UNCHANGED <<maxSize, clock, hits, misses, readers, getSt, statsSt,
                 detached, quiet, untouched, completed, writers, kept>>

\* ------------------------------------------------------- the specification

\* NewMemoryCache: an empty collection of capacity opts.MaxSize, counters 0.
Init ==
  /\ maxSize \in 1..MaxCap
  /\ clock = 1
  /\ entries = <<>>
  /\ hits = 0
  /\ misses = 0
  /\ readers = {}
  /\ getSt = [g \in Getters |-> IdleGet]
  /\ statsSt = IdleStats
  /\ detached = 0
  /\ last = NoLast
  /\ quiet = FALSE
  /\ untouched = FALSE
  /\ completed = 0
  /\ writers = NoWriter
  /\ kept = <<>>

\* Every operation that writes, and Get by two callers, at the instant the
\* entries expire: Get still returns them and Cleanup removes them.
Next ==
  \/ \E g \in Getters, embedding \in FewVectors : GetScan(g, embedding, Threshold09)
  \/ \E g \in Getters : GetReturn(g)
  \/ \E embedding \in Compass : SetCall(embedding, 0)
  \/ \E embedding \in FewVectors : DeleteCall(embedding)
  \/ ClearCall
  \/ CleanupCall
  \/ cleanupLoop
  \/ \E i \in 1..Len(entries) : updateHitStats(i)
  \/ updateHitStatsDetached

Spec == Init /\ [][Next]_vars

\* The specifications below leave out the operations that write nothing the
\* operations under study read, so that these can be given more inputs.

\* Stats and Size, with the operations that write the counters and the
\* length of the collection, and Gets that wait for the lock.
NextStats ==
  \/ \E g \in Getters : GetCall(g)
  \/ \E g \in Getters, embedding \in TwoVectors : GetScan(g, embedding, Threshold09)
  \/ \E g \in Getters : GetReturn(g)
  \/ StatsLoadHits
  \/ StatsReturn
  \/ Size
  \/ \E embedding \in TwoVectors : SetCall(embedding, 1)
  \/ ClearCall
  \/ \E i \in 1..Len(entries) : updateHitStats(i)
  \/ updateHitStatsDetached

SpecStats == Init /\ [][NextStats]_vars

\* Set on every collection that Set and the clock can build, with
\* near-duplicates.
NextSet ==
  \/ Tick
  \/ \E embedding \in SetVectors, ttl \in TTLs : SetCall(embedding, ttl)

SpecSet == Init /\ [][NextSet]_vars

\* Eviction on every hit bookkeeping that Set, Get, the goroutines Get
\* starts and the clock can build; the entries outlive the clock.
NextEvict ==
  \/ \E embedding \in TwoVectors : GetScan("g1", embedding, Threshold09)
  \/ GetReturn("g1")
  \/ Tick
  \/ \E embedding \in Compass : SetCall(embedding, MaxTime - clock)
  \/ \E i \in 1..Len(entries) : updateHitStats(i)
  \/ updateHitStatsDetached

SpecEvict == Init /\ [][NextEvict]_vars

\* Cleanup, by a client and by cleanupLoop, on every collection that Set,
\* Delete, Clear and the clock can build.
NextCleanup ==
  \/ Tick
  \/ \E embedding \in Compass, ttl \in TTLs : SetCall(embedding, ttl)
  \/ \E embedding \in Compass : DeleteCall(embedding)
  \/ ClearCall
  \/ CleanupCall
  \/ cleanupLoop

SpecCleanup == Init /\ [][NextCleanup]_vars

\* Delete on every collection that Set can build, with Gets counted.
NextDelete ==
  \/ \E embedding \in TwoVectors : GetScan("g1", embedding, Threshold09)
  \/ GetReturn("g1")
  \/ \E embedding \in SetVectors : SetCall(embedding, 1)
  \/ \E embedding \in SetVectors : DeleteCall(embedding)

SpecDelete == Init /\ [][NextDelete]_vars

\* Callers that keep the pointers they get from Get and give to Set, and
\* write through them, with the hit bookkeeping of the engine.
NextHandle ==
  \/ \E embedding \in TwoVectors : GetScan("g1", embedding, Threshold09)
  \/ GetReturn("g1")
  \/ \E embedding \in TwoVectors : SetCall(embedding, 1)
  \/ Keep
  \/ \E i \in 1..Len(entries), hitCount \in CallerCounts : CallerWrite(i, hitCount)
  \/ \E i \in 1..Len(entries) : updateHitStats(i)
  \/ updateHitStatsDetached
  \/ \E k \in 1..Len(kept) : updateHitStatsKept(k)

SpecHandle == Init /\ [][NextHandle]_vars

\* The hit bookkeeping against every operation that removes entries, with
\* callers that keep the pointers they get from Get and give to Set, never
\* write through them, and pass to Set only entries whose HitCount is 0
\* (new ones, or kept ones that no updateHitStats has written yet).
NextAccount ==
  \/ \E embedding \in OneVector : GetScan("g1", embedding, Threshold09)
  \/ GetReturn("g1")
  \/ \E embedding \in OneVector : SetCall(embedding, 0)
  \/ Keep
  \/ \E k \in 1..Len(kept) : kept[k].HitCount = 0 /\ SetKept(k)
  \/ \E embedding \in OneVector : DeleteCall(embedding)
  \/ ClearCall
  \/ CleanupCall
  \/ \E i \in 1..Len(entries) : updateHitStats(i)
  \/ updateHitStatsDetached
  \/ \E k \in 1..Len(kept) : updateHitStatsKept(k)

SpecAccount == Init /\ [][NextAccount]_vars

\* Get and Size on collections with expired entries, which Cleanup removes.
NextExpiry ==
  \/ \E g \in Getters, embedding \in TwoVectors : GetScan(g, embedding, Threshold09)
  \/ \E g \in Getters : GetReturn(g)
  \/ Size
  \/ Tick
  \/ \E embedding \in TwoVectors, ttl \in TTLs : SetCall(embedding, ttl)
  \/ CleanupCall
  \/ \E i \in 1..Len(entries) : updateHitStats(i)
  \/ updateHitStatsDetached

SpecExpiry == Init /\ [][NextExpiry]_vars

\* Every operation, the writers taking the lock in a step of their own, so
\* that they are seen waiting for it and holding it.
NextLock ==
  \/ \E w \in Writers : LockCall(w)
  \/ \E w \in Writers : Lock(w)
  \/ \E g \in Getters, embedding \in TwoVectors : GetScan(g, embedding, Threshold09)
  \/ \E g \in Getters : GetReturn(g)
  \/ StatsLoadHits
  \/ StatsReturn
  \/ Size
  \/ \E embedding \in OneVector : SetCall(embedding, 0)
  \/ \E embedding \in OneVector : DeleteCall(embedding)
  \/ ClearCall
  \/ CleanupCall
  \/ cleanupLoop
  \/ \E i \in 1..Len(entries) : updateHitStats(i)
  \/ updateHitStatsDetached

SpecLock == Init /\ [][NextLock]_vars

\* The cleanup task against Get, Set, Delete and the hit bookkeeping: the
\* ticker of cleanupLoop fires and Cleanup waits for the lock, takes it and
\* runs.
NextLive ==
  \/ LockCall("cleanupLoop")
  \/ Lock("cleanupLoop")
  \/ cleanupLoop
  \/ Tick
  \/ \E embedding \in OneVector : GetScan("g1", embedding, Threshold09)
  \/ GetReturn("g1")
  \/ \E embedding \in TwoVectors, ttl \in TTLs : SetCall(embedding, ttl)
  \/ \E embedding \in OneVector : DeleteCall(embedding)
  \/ \E i \in 1..Len(entries) : updateHitStats(i)
  \/ updateHitStatsDetached

\* NewMemoryCache starts cleanupLoop, which never returns: its ticker keeps
\* firing and its Cleanup gets the lock once the lock is free for good (new
\* readers wait behind a waiting writer); a Get that holds the read lock
\* returns.
SpecLive ==
  /\ Init
  /\ [][NextLive]_vars
  /\ WF_vars(Lock("cleanupLoop"))
  /\ WF_vars(cleanupLoop)
  /\ WF_vars(GetReturn("g1"))

\* Gets of malformed embeddings only, with every threshold, on every
\* collection that Set can build from well-formed embeddings.
NextMalformed ==
  \/ \E g \in Getters, embedding \in Malformed, threshold \in Thresholds :
       GetScan(g, embedding, threshold)
  \/ \E g \in Getters : GetReturn(g)
  \/ Tick
  \/ \E embedding \in TwoVectors, ttl \in TTLs : SetCall(embedding, ttl)

SpecMalformed == Init /\ [][NextMalformed]_vars

\* ------------------------------------------------------------------ claims

\* What a Get of (embedding, threshold) returns in the current state.
GetResult(embedding, threshold) ==
  Scan(entries, embedding, threshold, clock, 1,
       [bestMatch |-> Nil, bestSimilarity |-> Zero])

\* The positions of the stored entries that have not expired at time now.
Live(now) == {i \in 1..Len(entries) : entries[i].ExpiresAt >= now}

\* The similarity of the stored entry at position i to embedding.
SimAt(embedding, i) == CosineSimilarity(embedding, entries[i].Embedding)

\* C1: for every stored collection, query embedding and threshold (0 and
\* negative thresholds too), Get finds an entry exactly when some
\* non-expired stored entry has similarity >= threshold; the entry found is
\* a non-expired entry of maximal similarity among the non-expired entries,
\* and the similarity returned is that maximum.
C1_GetReturnsBestLiveMatch ==
  \A embedding \in QueryVectors, threshold \in Thresholds :
    LET r == GetResult(embedding, threshold)
        found == r.bestMatch # Nil
    IN /\ found <=> \E i \in Live(clock) : SimGE(SimAt(embedding, i), threshold)
       /\ found =>
            /\ r.bestMatch \in Live(clock)
            /\ \A j \in Live(clock) :
                 SimGE(SimAt(embedding, r.bestMatch), SimAt(embedding, j))
            /\ SimEQ(r.bestSimilarity, SimAt(embedding, r.bestMatch))

\* C2: the collection never holds more than opts.MaxSize entries, whatever
\* Get, Set, Delete, Clear, Cleanup, cleanupLoop and updateHitStats steps
\* interleave.
C2_SizeWithinCapacity == Len(entries) <= maxSize

\* A Set has just evicted from a full collection of capacity 2 while an
\* updateHitStats goroutine is still waiting.
C2_Witness ==
  /\ last.op = "Set:evicted"
  /\ maxSize = 2
  /\ Len(entries) = maxSize
  /\ PendingTotal > 0

\* The step is a Set (of the new entry last'.entry).
SetStep == last'.op \in {"Set:appended", "Set:evicted", "Set:replaced"}

\* In a Set step: the stored entry at position i is a near-duplicate of the
\* new entry.
DuplicateOfNew(i) ==
  SimGT(CosineSimilarity(last'.entry.Embedding,
                         entries[i].Embedding), NearDuplicate)

\* The number of positions of s that hold the entry e.
Count(s, e) == Cardinality({i \in 1..Len(s) : s[i] = e})

\* In a step: the stored entries that the step takes out of m.entries.
Removed == {e \in Range(entries) : Count(entries', e) < Count(entries, e)}

\* C3: a Set on a full collection (len = opts.MaxSize), of an entry that is
\* not a near-duplicate of any stored entry, removes exactly one stored
\* entry, keeps every other one, stores the new entry and leaves the size
\* at opts.MaxSize.
C3_SetAtCapacityEvictsOne ==
  [][(/\ SetStep
      /\ Len(entries) = maxSize
      /\ \A i \in 1..Len(entries) : ~DuplicateOfNew(i))
     => /\ \E p \in 1..Len(entries) :
             \A e \in Range(entries) \cup Range(entries') :
               Count(entries', e) = Count(entries, e)
                                      - (IF e = entries[p] THEN 1 ELSE 0)
                                      + (IF e = last'.entry THEN 1 ELSE 0)
        /\ last'.entry \notin Range(entries)
        /\ Len(entries') = maxSize]_vars

\* A Set has just evicted from a full collection of capacity 2.
C3_Witness ==
  /\ last.op = "Set:evicted"
  /\ maxSize = 2
  /\ Len(entries) = 2
  /\ entries[2] = last.entry

\* C4: a Set of an entry that is a near-duplicate of some stored entry
\* (expired or not) puts the new entry at the position of the first such
\* entry and changes nothing else: no other entry is removed or moved,
\* nothing is evicted even from a full collection, the size is the same.
C4_SetReplacesFirstDuplicate ==
  [][(SetStep /\ \E i \in 1..Len(entries) : DuplicateOfNew(i))
     => LET first == CHOOSE i \in 1..Len(entries) :
                       /\ DuplicateOfNew(i)
                       /\ \A j \in 1..(i - 1) : ~DuplicateOfNew(j)
        IN entries' = [entries EXCEPT ![first] = last'.entry]]_vars

\* A Set has just replaced the first entry of a full collection whose
\* second entry, expired by now, is a near-duplicate of the new entry too.
C4_Witness ==
  /\ last.op = "Set:replaced"
  /\ maxSize = 2
  /\ Len(entries) = 2
  /\ entries[1] = last.entry
  /\ SimGT(SimAt(last.entry.Embedding, 2), NearDuplicate)
  /\ entries[2].ExpiresAt < clock

\* The step is a Set that evicts: the new entry is no near-duplicate of a
\* stored entry, and a stored entry is gone.
EvictStep ==
  /\ SetStep
  /\ \A i \in 1..Len(entries) : ~DuplicateOfNew(i)
  /\ Removed # {}

\* A Get has returned a hit on entry: its updateHitStats goroutine is
\* waiting or has run (an entry passed to Set has HitCount 0).
WasHit(entry) == entry.HitCount > 0 \/ entry.Pending > 0

\* C5: when a Set evicts while both an entry no Get has returned and an
\* entry some Get has returned are stored, the evicted entry is one that no
\* Get has returned.
C5_EvictsNeverHitFirst ==
  [][(/\ EvictStep
      /\ \E entry \in Range(entries) : WasHit(entry)
      /\ \E entry \in Range(entries) : ~WasHit(entry))
     => \A entry \in Removed : ~WasHit(entry)]_vars

\* C6: the entry a Set evicts has the least LastHitAt of the stored entries
\* (0, the zero time, for an entry never hit), and is the first in stored
\* order of those with the least LastHitAt.
C6_EvictsFirstOldest ==
  [][EvictStep
     => \E p \in 1..Len(entries) :
          /\ Removed = {entries[p]}
          /\ \A j \in 1..Len(entries) :
               entries[p].LastHitAt <= entries[j].LastHitAt
          /\ \A j \in 1..(p - 1) :
               entries[p].LastHitAt < entries[j].LastHitAt]_vars

\* A Set has just evicted from a collection of capacity 2 and the entry
\* that stayed was hit at time 2: the evicted one was never hit or was hit
\* earlier.
C6_Witness ==
  /\ last.op = "Set:evicted"
  /\ maxSize = 2
  /\ Len(entries) = 2
  /\ entries[1].LastHitAt = 2

\* The step is a Cleanup, called by a client or by cleanupLoop.
CleanupStep == last'.op \in {"Cleanup", "cleanupLoop"}

\* C7: a Cleanup at time t removes exactly the stored entries with
\* ExpiresAt <= t, keeps the others unmodified and in order, and returns the
\* number removed; a Cleanup that follows a Cleanup at the same time
\* returns 0 and changes nothing.
C7_CleanupRemovesExactlyExpired ==
  [][CleanupStep
     => LET Kept(entry) == entry.ExpiresAt > clock
        IN /\ entries' = SelectSeq(entries, Kept)
           /\ last'.ret = Cardinality({i \in 1..Len(entries) :
                                         entries[i].ExpiresAt <= clock})
           /\ last.op \in {"Cleanup", "cleanupLoop"}
                => last'.ret = 0 /\ entries' = entries]_vars

\* A Cleanup at time 1 has just removed an entry, which expired at this
\* very time, from a collection of which a later entry stays.
C7_Witness ==
  /\ last.op = "Cleanup"
  /\ last.ret = 1
  /\ Len(entries) = 1
  /\ clock = 1
  /\ entries[1].ExpiresAt = 2

\* What Size and Stats return and would return is all 0.
AllZero ==
  /\ Len(entries) = 0
  /\ hits = 0
  /\ misses = 0
  /\ last.op = "Size" => last.ret = 0
  /\ last.op = "Stats" =>
       /\ last.stats.TotalEntries = 0
       /\ last.stats.TotalHits = 0
       /\ last.stats.TotalMisses = 0
       /\ last.stats.HitRate[1] = 0

\* C8: from the return of Clear to the next call of Get or Set the
\* collection is empty and the counters are 0, and so are the size, the
\* hits, the misses and the hit rate that Size and Stats return, also when
\* Gets ran concurrently with the Clear and while updateHitStats goroutines
\* started before the Clear wait or run.
C8_ClearedUntilNextGetOrSet == quiet => AllZero

\* C8 as amended: the same from the return of Clear until a Get or a Set
\* next takes the lock m.mu, be it one called before Clear returned.
C8_ClearedUntilNextLock == untouched => AllZero

\* Stats has just returned after a Clear, with no Get or Set having taken
\* the lock since, while a Get called before the Clear returned waits for
\* the lock and an updateHitStats goroutine started before the Clear has
\* not run.
C8_Witness ==
  /\ untouched
  /\ last.op = "Stats"
  /\ PendingTotal > 0
  /\ \E g \in Getters : getSt[g].pc = "called"

\* The step is a Delete (of the embedding last'.embedding).
DeleteStep == last'.op = "Delete"

\* In a Delete step: the stored entry at position i is a near-duplicate of
\* the embedding given.
DuplicateOfGiven(i) ==
  SimGT(CosineSimilarity(last'.embedding, entries[i].Embedding),
        NearDuplicate)

\* C9: Delete removes the first stored entry that is a near-duplicate of
\* the embedding given, and only it (the size goes down by 1, the others
\* stay stored); with no such entry the collection and the counters are
\* unchanged; it returns nil in both cases.
C9_DeleteRemovesFirstDuplicate ==
  [][DeleteStep
     => /\ last'.ret = 0
        /\ IF \E i \in 1..Len(entries) : DuplicateOfGiven(i)
           THEN LET first == CHOOSE i \in 1..Len(entries) :
                               /\ DuplicateOfGiven(i)
                               /\ \A j \in 1..(i - 1) : ~DuplicateOfGiven(j)
                IN /\ \A e \in Range(entries) :
                        Count(entries', e) =
                          Count(entries, e) - (IF e = entries[first] THEN 1 ELSE 0)
                   /\ Len(entries') = Len(entries) - 1
           ELSE /\ entries' = entries
                /\ hits' = hits
                /\ misses' = misses]_vars

\* A Delete has just removed the first entry of a collection whose second
\* entry, still stored, is a near-duplicate of the embedding given too, the
\* counters not being 0.
C9_Witness ==
  /\ last.op = "Delete"
  /\ Len(entries) = 1
  /\ SimGT(SimAt(last.embedding, 1), NearDuplicate)
  /\ hits + misses > 0

\* C10: the (entries, hits, misses) that Stats returns are values the
\* engine held together at one instant between the call and the return.
C10_StatsIsSnapshot ==
  last.op = "Stats" =>
    Triple(last.stats.TotalEntries, last.stats.TotalHits,
           last.stats.TotalMisses) \in last.seen

\* The fields of api.CacheEntry of the stored entries, in order (without the
\* bookkeeping of the pointers held outside m.entries).
Stored(ents) ==
  [i \in 1..Len(ents) |-> [ents[i] EXCEPT !.Pending = 0, !.Held = FALSE]]

\* C11: no caller holds a live handle to a stored entry: a write by a
\* caller to the entry that Get returned to it or that it passed to Set
\* changes no field of a stored entry, and the hit bookkeeping of the engine
\* (updateHitStats) does not change an entry that a caller got from Get or
\* gave to Set.
C11_NoLiveHandle ==
  [][/\ last'.op = "CallerWrite" => Stored(entries') = Stored(entries)
     /\ (last'.op = "updateHitStats" /\ last'.found /\ entries[last'.ret].Held)
          => Stored(entries')[last'.ret] = Stored(entries)[last'.ret]]_vars

\* The step is the scan of the Get by g.
ScanStep(g) == getSt[g].pc # "scanned" /\ getSt'[g].pc = "scanned"

\* C12: a Get of a malformed embedding (empty, of zero magnitude, or of a
\* length that no stored embedding has) finds nothing, whatever the
\* threshold (negative, 0 or positive) and the collection: it returns
\* found = false, adds exactly 1 to the misses, and leaves the hits and the
\* collection as they are.  (Every Get of SpecMalformed is such a Get.)
C12_MalformedGetMisses ==
  /\ [](\A embedding \in Malformed, threshold \in Thresholds :
          GetResult(embedding, threshold).bestMatch = Nil)
  /\ [][/\ \A g \in Getters : ScanStep(g) => getSt'[g].bestMatch = Nil
        /\ last'.op = "Get" => /\ ~last'.found
                               /\ misses' = misses + 1
                               /\ hits' = hits
                               /\ entries' = entries]_vars

\* Two Gets of malformed embeddings have returned, on a collection of two
\* entries.
C12_Witness ==
  /\ last.op = "Get"
  /\ ~last.found
  /\ misses = 2
  /\ Len(entries) = 2

\* The Gets that have been called and have not returned.
InProgress == {g \in Getters : getSt[g].pc # "idle"}

\* C13: a Get that returns adds exactly 1 to exactly one counter, the hits
\* if it returns found = true and the misses otherwise; and whenever no Get
\* is in progress, hits + misses is the number of Gets that have returned
\* since NewMemoryCache or the last Clear, however Gets (also Gets waiting
\* for the lock), Clears, Sets and Stats interleave.
C13_EveryGetCountedOnce ==
  /\ [][last'.op = "Get"
         => IF last'.found THEN hits' = hits + 1 /\ misses' = misses
            ELSE hits' = hits /\ misses' = misses + 1]_vars
  /\ [](InProgress = {} => hits + misses = completed)

\* A Get has returned a miss on the collection a Clear emptied, after an
\* earlier Get whose hit the Clear has taken out of the counters (its
\* updateHitStats goroutine has not run yet); no Get is in progress.
C13_Witness ==
  /\ last.op = "Get"
  /\ ~last.found
  /\ InProgress = {}
  /\ Len(entries) = 0
  /\ detached = 1
  /\ hits = 0
  /\ misses = 1
  /\ completed = 1

\* C14: the hit bookkeeping of a hit that Get reported (HitCount + 1,
\* LastHitAt = now) is written to an entry that is in m.entries at the
\* time of the write: no Cleanup, Delete, Clear, eviction or overwrite by
\* Set between the match and the write makes it go to an entry that has
\* been removed.
C14_BookkeepingOnStoredEntry ==
  [][last'.op = "updateHitStats" => last'.found]_vars

\* The positions of the non-expired stored entries whose similarity to
\* embedding meets threshold and is the greatest among the non-expired
\* stored entries.
Tops(embedding, threshold) ==
  {i \in Live(clock) :
     /\ SimGE(SimAt(embedding, i), threshold)
     /\ \A j \in Live(clock) : SimGE(SimAt(embedding, i), SimAt(embedding, j))}

\* C15: when several non-expired stored entries share the greatest
\* similarity and it meets the threshold, Get returns the one of them that
\* comes first in the stored order.
C15_EarliestWinsTies ==
  \A embedding \in QueryVectors, threshold \in Thresholds :
    LET tops == Tops(embedding, threshold)
    IN Cardinality(tops) > 1 =>
         /\ GetResult(embedding, threshold).bestMatch \in tops
         /\ \A i \in tops : GetResult(embedding, threshold).bestMatch <= i

\* C16: Get adds, removes, replaces and reorders nothing: from the step in
\* which a Get takes the lock to the step in which it returns, m.entries
\* keeps its entries, their order and its length, expired entries included
\* (Get skips them, they stay stored), and Size returns that length.
C16_GetLeavesCollection ==
  [][/\ (Scanning # {} \/ Scanning' # {} \/ last'.op = "Get")
          => Stored(entries') = Stored(entries)
     /\ last'.op = "Size" => last'.ret = Len(entries')]_vars

\* A Get has returned a miss on a collection of two entries that have both
\* expired (one of them has the embedding asked for): they are still
\* stored.
C16_Witness ==
  /\ last.op = "Get"
  /\ ~last.found
  /\ Len(entries) = 2
  /\ \A i \in 1..Len(entries) : entries[i].ExpiresAt < clock

\* The history names of the bodies of the writer w.
BodyOps(w) ==
  IF w = "Set" THEN {"Set:appended", "Set:evicted", "Set:replaced"} ELSE {w}

\* C17: while Set, Delete, Clear, Cleanup or updateHitStats is between its
\* Lock and its Unlock, no other operation holds m.mu, as reader or as
\* writer; no Get scans, no Stats and no Size reads, and no writer's body
\* runs, while another writer holds the lock; the body of a writer runs
\* when no reader holds the lock.  (Gets, Stats and Size do hold the lock
\* together: C17_Witness.)
C17_LockDiscipline ==
  /\ [](/\ Cardinality(Inside) <= 1
        /\ Inside # {} => readers = {})
  /\ [][/\ \A g \in Getters : ScanStep(g) => Inside = {}
        /\ last'.op = "Size" => Inside = {}
        /\ \A w \in Writers :
             last'.op \in BodyOps(w) => readers = {} /\ Inside \subseteq {w}]_vars

\* Size has just returned while both Gets and Stats hold the read lock, on
\* a collection that a Set has written.
C17_Witness ==
  /\ last.op = "Size"
  /\ readers = Getters \cup {"stats"}
  /\ Len(entries) > 0

\* Some stored entry's expiry has passed.
StoredExpired == \E i \in 1..Len(entries) : entries[i].ExpiresAt < clock

\* C18: the cleanup task runs from NewMemoryCache on, so that every stored
\* entry whose ExpiresAt has passed is eventually out of m.entries,
\* whatever Gets, Sets, Deletes and hit bookkeeping run meanwhile (given
\* that the cleanup task is scheduled and gets the lock when it is free):
\* whenever such entries are stored, a time comes at which none is.
C18_ExpiredEventuallyRemoved == StoredExpired ~> ~StoredExpired

\* cleanupLoop has just removed an expired entry at time 2 and left a live
\* one.
C18_Witness ==
  /\ last.op = "cleanupLoop"
  /\ last.ret = 1
  /\ clock = 2
  /\ Len(entries) = 1

\* C19: no two stored entries (at different positions, with nonzero
\* embeddings) are near-duplicates of each other, that is, have a cosine
\* similarity > 0.99.
C19_NoTwoNearDuplicates ==
  \A i, j \in 1..Len(entries) :
    (/\ i # j
     /\ Dot(entries[i].Embedding, entries[i].Embedding, 2) # 0
     /\ Dot(entries[j].Embedding, entries[j].Embedding, 2) # 0)
    => ~IsDuplicate(CosineSimilarity(entries[i].Embedding,
                                     entries[j].Embedding))

\* What a Get of (embedding, threshold) at time now returns in the current
\* state.
GetResultAt(embedding, threshold, now) ==
  Scan(entries, embedding, threshold, now, 1,
       [bestMatch |-> Nil, bestSimilarity |-> Zero])

RECURSIVE SumHitCount(_)
SumHitCount(ents) ==
  IF ents = <<>> THEN 0 ELSE Head(ents).HitCount + SumHitCount(Tail(ents))

\* C21: when every entry passed to Set has HitCount 0 and no caller writes
\* to an entry, the HitCounts of the stored entries add up to at most
\* m.hits, however Get, updateHitStats, Set, Delete, Cleanup and Clear
\* interleave.
C21_StoredHitsWithinHits == SumHitCount(entries) <= hits

\* C22: at every instant Get and Cleanup tell expired entries from the
\* others in the same way, the instant ExpiresAt included: Get skips a
\* stored entry exactly when a Cleanup at that instant would remove it, and
\* the entry a Get returns is one that a Cleanup at that instant would keep.
C22_GetAndCleanupAgree ==
  /\ \A i \in 1..Len(entries) :
       Expired(clock, entries[i]) <=> ~Active(clock, entries[i])
  /\ \A embedding \in TwoVectors, threshold \in Thresholds :
       LET r == GetResult(embedding, threshold)
       IN r.bestMatch # Nil =>
            Count(Cleanup(entries, clock, 1), entries[r.bestMatch]) > 0

====
